---- MODULE Spec2Model ----
(***************************************************************************)
(* Model of django-htmx-complete: the submission handlers of accounts/     *)
(* and core/ (register, profile, contact, newsletter) as request steps     *)
(* over a shared relational store, and the per-field validation endpoints  *)
(* as functions of (POST data, store snapshot).                            *)
(*                                                                         *)
(* Text is a sequence of one-character strings, so that strip(), len()     *)
(* and the regular expressions of the source are computed, not assumed.    *)
(***************************************************************************)
EXTENDS Integers, Sequences, FiniteSets, TLC

\* ------------------------------------------------------------------------
\* Bounds of the model
\* ------------------------------------------------------------------------
\* number of concurrent client sessions
NumClients == 2
\* cap on the number of ContactInquiry rows (the table is unbounded)
MaxContacts == 2
\* validation inputs: every text over Alphabet up to this length
MaxLen == 3

\* ------------------------------------------------------------------------
\* Character classes used by the regular expressions of the source
\* ------------------------------------------------------------------------
Lower == {"a","b","c","d","e","f","g","h","i","j","k","l","m",
          "n","o","p","q","r","s","t","u","v","w","x","y","z"}
Upper == {"A","B","C","D","E","F","G","H","I","J","K","L","M",
          "N","O","P","Q","R","S","T","U","V","W","X","Y","Z"}
Digit == {"0","1","2","3","4","5","6","7","8","9"}
Letter == Lower \cup Upper
\* \s
Whitespace == {" ", "\t", "\n"}
\* \w
WordChar == Letter \cup Digit \cup {"_"}

\* ------------------------------------------------------------------------
\* Text helpers
\* ------------------------------------------------------------------------
AllIn(s, C) == \A i \in 1..Len(s) : s[i] \in C

AnyIn(s, C) == \E i \in 1..Len(s) : s[i] \in C

Rep(c, n) == [i \in 1..n |-> c]

RECURSIVE LStrip(_)
LStrip(s) ==
    IF s # <<>> /\ Head(s) \in Whitespace THEN LStrip(Tail(s)) ELSE s

RECURSIVE RStrip(_)
RStrip(s) ==
    IF s # <<>> /\ s[Len(s)] \in Whitespace
    THEN RStrip(SubSeq(s, 1, Len(s) - 1))
    ELSE s

\* the value read without .strip()
StripOmitted(s) == s

\* str.strip()
Strip(s) == RStrip(LStrip(s))

\* request.POST.get(key, '')
PostGet(post, key) == IF key \in DOMAIN post THEN post[key] ELSE <<>>

\* ------------------------------------------------------------------------
\* Regular expressions of the source.  re.match(r'^X$', s): X matches the
\* whole of s, or the whole of s without one trailing newline.
\* ------------------------------------------------------------------------
Chomp(s) ==
    IF s # <<>> /\ s[Len(s)] = "\n" THEN SubSeq(s, 1, Len(s) - 1) ELSE s

\* ^[a-zA-Z\s]+$
FullNameRegex(s) == s # <<>> /\ AllIn(s, Letter \cup Whitespace)

NameRegex(s) == FullNameRegex(s) \/ FullNameRegex(Chomp(s))

\* ^[a-zA-Z0-9@.+_-]+$
UsernameChars == Letter \cup Digit \cup {"@", ".", "+", "_", "-"}

FullUsernameRegex(s) == s # <<>> /\ AllIn(s, UsernameChars)

UsernameRegex(s) == FullUsernameRegex(s) \/ FullUsernameRegex(Chomp(s))

\* ^[a-zA-Z0-9._%+-]+@[a-zA-Z0-9.-]+\.[a-zA-Z]{2,}$
EmailLocalChars == Letter \cup Digit \cup {".", "_", "%", "+", "-"}

EmailDomainChars == Letter \cup Digit \cup {".", "-"}

FullEmailRegex(s) ==
    \E i \in 2..Len(s) : \E j \in (i + 2)..(Len(s) - 2) :
        /\ s[i] = "@"
        /\ s[j] = "."
        /\ AllIn(SubSeq(s, 1, i - 1), EmailLocalChars)
        /\ AllIn(SubSeq(s, i + 1, j - 1), EmailDomainChars)
        /\ AllIn(SubSeq(s, j + 1, Len(s)), Letter)

EmailRegex(s) == FullEmailRegex(s) \/ FullEmailRegex(Chomp(s))

\* ^https?:\/\/(www\.)?[-a-zA-Z0-9@:%._\+~#=]{1,256}\.[a-zA-Z0-9()]{1,6}\b
\*  ([-a-zA-Z0-9()@:%_\+.~#?&//=]*)$
UrlHostChars == Letter \cup Digit \cup {"-", "@", ":", "%", ".", "_", "+", "~", "#", "="}

UrlTldChars == Letter \cup Digit \cup {"(", ")"}

UrlRestChars == Letter \cup Digit \cup
    {"-", "(", ")", "@", ":", "%", "_", "+", ".", "~", "#", "?", "&", "/", "="}

UrlHostMax == 256

UrlTldMax == 6

HasPrefix(s, p) == Len(s) >= Len(p) /\ SubSeq(s, 1, Len(p)) = p

\* \b after position t of s
WordBoundaryAfter(s, t) ==
    (s[t] \in WordChar) # (t < Len(s) /\ s[t + 1] \in WordChar)

\* the part of the expression after the scheme and the optional www.,
\* matched against s from position start to the end of s
UrlMatchFrom(s, start) ==
    \E d \in (start + 1)..Len(s) : \E t \in (d + 1)..Len(s) :
        /\ s[d] = "."
        /\ d - start <= UrlHostMax
        /\ AllIn(SubSeq(s, start, d - 1), UrlHostChars)
        /\ t - d <= UrlTldMax
        /\ AllIn(SubSeq(s, d + 1, t), UrlTldChars)
        /\ WordBoundaryAfter(s, t)
        /\ AllIn(SubSeq(s, t + 1, Len(s)), UrlRestChars)

FullUrlRegex(s) ==
    \E scheme \in {<<"h","t","t","p",":","/","/">>,
                   <<"h","t","t","p","s",":","/","/">>} :
        /\ HasPrefix(s, scheme)
        /\ \/ UrlMatchFrom(s, Len(scheme) + 1)
           \/ /\ HasPrefix(s, scheme \o <<"w","w","w",".">>)
              /\ UrlMatchFrom(s, Len(scheme) + 5)

UrlRegex(s) == FullUrlRegex(s) \/ FullUrlRegex(Chomp(s))

\* ------------------------------------------------------------------------
\* Form fields bound by the submission forms (forms.CharField, EmailField
\* and the username field of UserCreationForm).  Text fields are stripped
\* when bound; password fields are not.
\* ------------------------------------------------------------------------
\* username of UserCreationForm: ^[\w.@+-]+\Z, at most 150 characters
UsernameFieldMax == 150

UsernameFieldValid(u) ==
    /\ u # <<>>
    /\ Len(u) <= UsernameFieldMax
    /\ AllIn(u, WordChar \cup {".", "@", "+", "-"})

\* forms.CharField(max_length=30, required=True)
NameFieldMax == 30

NameFieldValid(n) == n # <<>> /\ Len(n) <= NameFieldMax

\* forms.EmailField: local part a dot-atom, domain of dot-separated labels
\* ending in a top-level label of at least two characters
EmailAtext == Letter \cup Digit \cup
    {"-", "!", "#", "$", "%", "&", "'", "*", "+", "/", "=", "?", "^", "_",
     "{", "}", "|", "~"}
\* (the backquote, also an atom character, cannot be written in a string
\* here and is left out)

EmailUserPartValid(u) ==
    /\ u # <<>>
    /\ AllIn(u, EmailAtext \cup {"."})
    /\ u[1] # "."
    /\ u[Len(u)] # "."
    /\ \A i \in 1..(Len(u) - 1) : ~(u[i] = "." /\ u[i + 1] = ".")

EmailDomainPartValid(d) ==
    /\ d # <<>>
    /\ AllIn(d, Letter \cup Digit \cup {"-", "."})
    /\ d[1] \in Letter \cup Digit
    /\ \E j \in 2..(Len(d) - 2) :
          /\ d[j] = "."
          /\ \A k \in (j + 1)..Len(d) : d[k] # "."
          /\ d[Len(d)] # "-"
    /\ \A i \in 1..Len(d) :
          d[i] = "." =>
             /\ i > 1
             /\ d[i - 1] \in Letter \cup Digit
             /\ (\E k \in (i + 1)..Len(d) : d[k] = ".")
                    => d[i + 1] \in Letter \cup Digit

EmailFieldValid(e) ==
    \E i \in 1..Len(e) :
        /\ e[i] = "@"
        /\ \A k \in (i + 1)..Len(e) : e[k] # "@"
        /\ EmailUserPartValid(SubSeq(e, 1, i - 1))
        /\ EmailDomainPartValid(SubSeq(e, i + 1, Len(e)))

\* ------------------------------------------------------------------------
\* State
\* ------------------------------------------------------------------------
VARIABLES
    users,      \* auth User rows: [username, email, password, is_staff]
    profiles,   \* UserProfile rows: [id, user, website]
    contacts,   \* Contact rows: [id, name, email, subject, is_resolved]
    subs,       \* NewsletterSubscription rows: [id, email]
    session,    \* per client: username the session is authenticated as, or <<>>
    pc,         \* per client: position of its request in its handler
    req,        \* per client: the request being handled
    resp,       \* the response most recently returned to a client
    vreq,       \* the field-validation request most recently answered
    vresp       \* its outcome

store == <<users, profiles, contacts, subs>>

vars == <<users, profiles, contacts, subs, session, pc, req, resp, vreq, vresp>>

Clients == 1..NumClients

Anonymous == <<>>

Request(view, method, post) ==
    [view |-> view, method |-> method, post |-> IF method = "POST" THEN post ELSE <<>>]

NoReq == Request("none", "none", <<>>)

\* A response: the request r it answers and whether it carried the
\* HX-Request header (the header is read only where the response is built,
\* and is drawn there), what is_valid() said ("yes", "no", or "na" when no
\* form was bound), the template or redirect returned, whether the form in
\* it is the bound form and the errors it shows, the level of the message
\* queued, the record id the message refers to, and the user the client's
\* session is authenticated as once the response is out.  rows and listing
\* are the ids of the Contact rows on the page returned and in the query
\* set it is a page of (none but in the answers of contact_list_view).
Response(r, htmx, valid, kind, bound, errors, msg, ref, sess) ==
    [view |-> r.view, method |-> r.method, post |-> r.post, htmx |-> htmx,
     valid |-> valid, kind |-> kind, bound |-> bound, errors |-> errors,
     msg |-> msg, ref |-> ref, session |-> sess, rows |-> {}, listing |-> {}]

NoResp == Response(NoReq, FALSE, "na", "none", FALSE, {}, "none", 0, Anonymous)

NoPost == <<>>

\* The answer of a field-validation endpoint: the HTTP status, the template
\* rendered ("empty" for HttpResponse('')), and the template's context.
Outcome(status, kind, message, strength, feedback, words, chars) ==
    [status |-> status, kind |-> kind, message |-> message,
     strength |-> strength, feedback |-> feedback, words |-> words,
     chars |-> chars]

NoOutcome == Outcome(0, "none", "", 0, <<>>, 0, 0)

NextId(rows) ==
    IF rows = {} THEN 1
    ELSE 1 + CHOOSE m \in {r.id : r \in rows} : \A r \in rows : r.id <= m

Init ==
    /\ users = {}
    /\ profiles = {}
    /\ contacts = {}
    /\ subs = {}
    /\ session = [c \in Clients |-> Anonymous]
    /\ pc = [c \in Clients |-> "idle"]
    /\ req = [c \in Clients |-> NoReq]
    /\ resp = NoResp
    /\ vreq = NoReq
    /\ vresp = NoOutcome

Respond(c, r) ==
    /\ resp' = r
    /\ pc' = [pc EXCEPT ![c] = "idle"]
    /\ req' = [req EXCEPT ![c] = NoReq]

Proceed(c, r, to) ==
    /\ pc' = [pc EXCEPT ![c] = to]
    /\ req' = [req EXCEPT ![c] = r]
    /\ UNCHANGED resp

\* ------------------------------------------------------------------------
\* Texts submitted by the modelled clients
\* ------------------------------------------------------------------------
T_ab == <<"a", "b">>
T_abc == <<"a", "b", "c">>
T_bang == <<"a", "!">>
T_Al == <<"A", "l">>
T_A1 == <<"A", "1">>
\* a@b.cc
E_plain == <<"a", "@", "b", ".", "c", "c">>
\* a!@b.cc: accepted by forms.EmailField, rejected by the views' email regex
E_bang == <<"a", "!", "@", "b", ".", "c", "c">>
\* a@b
E_short == <<"a", "@", "b">>
P_strong == <<"A", "a", "1", "!", "a", "a", "a", "a">>
P_other == <<"a", "a", "a", "a", "a", "a", "a", "a">>
\* http://a.bc
W_plain == <<"h", "t", "t", "p", ":", "/", "/", "a", ".", "b", "c">>
W_space == <<"a", " ", "b">>
S_4 == <<"H", "e", "l", "p">>
S_5 == <<"H", "e", "l", "l", "o">>
M_10 == <<"t", "e", "n", " ", "l", "e", "t", "t", "e", "r">>

Methods == {"GET", "POST"}

\* ------------------------------------------------------------------------
\* accounts: CustomUserCreationForm and register_view
\* ------------------------------------------------------------------------
RegisterPost(u, f, e, p1, p2) ==
    [username |-> u, first_name |-> f, last_name |-> T_Al, email |-> e,
     password1 |-> p1, password2 |-> p2]

RegisterPosts ==
    {RegisterPost(T_ab, T_Al, E_plain, P_strong, P_strong),
     RegisterPost(T_abc, T_Al, E_plain, P_strong, P_strong),
     RegisterPost(T_abc, T_Al, E_bang, P_strong, P_strong),
     RegisterPost(T_bang, T_A1, E_short, P_strong, P_other)}

UsernameTaken(u) == \E x \in users : x.username = u

EmailRegistered(e) == \E x \in users : x.email = e

\* CustomUserCreationForm(request.POST).is_valid(): the fields in error
RegisterErrors(post) ==
    LET u  == Strip(PostGet(post, "username"))
        f  == Strip(PostGet(post, "first_name"))
        l  == Strip(PostGet(post, "last_name"))
        e  == Strip(PostGet(post, "email"))
        p1 == PostGet(post, "password1")
        p2 == PostGet(post, "password2")
    IN  {x \in {"username"} : ~UsernameFieldValid(u) \/ UsernameTaken(u)}
        \cup {x \in {"first_name"} : ~NameFieldValid(f) \/ ~NameRegex(f)}
        \cup {x \in {"last_name"} : ~NameFieldValid(l) \/ ~NameRegex(l)}
        \cup {x \in {"email"} : ~EmailFieldValid(e) \/ EmailRegistered(e)}
        \cup {x \in {"password1"} : p1 = <<>>}
        \cup {x \in {"password2"} : p2 = <<>> \/ p1 # p2}

\* what register_view, profile_view and contact_view return for a request
\* that is not a POST with a valid form
FormResponse(r, htmx, errors, partial, page, sess) ==
    IF r.method = "POST" /\ htmx
    THEN Response(r, htmx, "no", partial, TRUE, errors, "none", 0, sess)
    ELSE Response(r, htmx, IF r.method = "POST" THEN "no" ELSE "na",
                  page, FALSE, {}, "none", 0, sess)

\* register_view up to form.is_valid(), for a request body out of posts
register_request(c, posts) ==
    /\ pc[c] = "idle"
    /\ \E m \in Methods, h \in BOOLEAN, p \in posts :
         LET r == Request("register", m, p)
             errors == RegisterErrors(r.post)
         IN  IF m = "POST" /\ errors = {}
             THEN Proceed(c, r, "register_save")
             ELSE Respond(c, FormResponse(r, h, errors,
                                          "partials/register_form.html",
                                          "registration/register.html",
                                          session[c]))
    /\ UNCHANGED <<store, session, vreq, vresp>>

register_view(c) == register_request(c, RegisterPosts)

\* user = form.save(): INSERT under the unique constraint of User.username
register_save(c) ==
    /\ pc[c] = "register_save"
    /\ LET p == req[c].post
           u == Strip(p.username)
       IN  IF UsernameTaken(u)
           THEN /\ \E h \in BOOLEAN :
                     Respond(c, Response(req[c], h, "yes", "IntegrityError",
                                         FALSE, {}, "none", 0, session[c]))
                /\ UNCHANGED users
           ELSE /\ users' = users \cup
                      {[username |-> u, email |-> Strip(p.email),
                        password |-> p.password1, is_staff |-> FALSE]}
                /\ Proceed(c, req[c], "register_profile")
    /\ UNCHANGED <<profiles, contacts, subs, session, vreq, vresp>>

\* UserProfile.objects.get_or_create(user=u) is a SELECT followed, when no
\* row is found, by an INSERT under the one-to-one constraint on user; an
\* INSERT that hits the constraint falls back to the row that is there.
HasProfile(u) == \E p \in profiles : p.user = u

ProfileUnique(u) == ~HasProfile(u)

\* the INSERT of a profile with nothing that keeps it the only one
ProfileCreateUnguarded(u) ==
    profiles \cup {[id |-> NextId(profiles), user |-> u, website |-> <<>>]}

ProfileCreate(u) ==
    IF ProfileUnique(u)
    THEN profiles \cup {[id |-> NextId(profiles), user |-> u, website |-> <<>>]}
    ELSE profiles

\* authenticate(username=..., password=...)
authenticate(username, password) ==
    IF \E x \in users : x.username = username /\ x.password = password
    THEN username
    ELSE Anonymous

\* register_view from authenticate() to the response
RegisterFinish(c) ==
    LET r == req[c]
        user == authenticate(Strip(r.post.username), r.post.password1)
    IN  \E h \in BOOLEAN :
          IF user = Anonymous
          THEN /\ Respond(c, Response(r, h, "yes", "AttributeError",
                                      FALSE, {}, "none", 0, session[c]))
               /\ UNCHANGED session
          ELSE /\ session' = [session EXCEPT ![c] = user]
               /\ Respond(c, Response(r, h, "yes",
                                      IF h THEN "HX-Redirect:core:home"
                                           ELSE "redirect:core:home",
                                      FALSE, {}, "success", 0, user))

\* UserProfile.objects.get_or_create(user=user): the SELECT
register_profile(c) ==
    /\ pc[c] = "register_profile"
    /\ IF HasProfile(Strip(req[c].post.username))
       THEN RegisterFinish(c)
       ELSE Proceed(c, req[c], "register_profile_create") /\ UNCHANGED session
    /\ UNCHANGED <<store, vreq, vresp>>

\* UserProfile.objects.get_or_create(user=user): the INSERT, then the rest
register_profile_create(c) ==
    /\ pc[c] = "register_profile_create"
    /\ profiles' = ProfileCreate(Strip(req[c].post.username))
    /\ RegisterFinish(c)
    /\ UNCHANGED <<users, contacts, subs, vreq, vresp>>

\* ------------------------------------------------------------------------
\* accounts: UserProfileForm and profile_view
\* ------------------------------------------------------------------------
ProfilePosts == {[website |-> W_plain], [website |-> W_space]}

\* UserProfileForm(request.POST, instance=profile).is_valid()
ProfileErrors(post) ==
    LET w == Strip(PostGet(post, "website"))
    IN  {x \in {"website"} : w # <<>> /\ ~UrlRegex(w)}

\* profile_view after get_or_create has left the profile table as profs;
\* the method and the body of the request are read from here on
ProfileFinish(c, profs) ==
    \E m \in Methods, h \in BOOLEAN, p \in ProfilePosts :
      LET r == Request("profile", m, p)
          u == session[c]
          errors == ProfileErrors(r.post)
      IN  IF m = "POST" /\ errors = {}
          THEN /\ profiles' =
                    {IF x.user = u
                     THEN [x EXCEPT !.website = Strip(PostGet(r.post, "website"))]
                     ELSE x : x \in profs}
               /\ Respond(c, Response(r, h, "yes",
                                      IF h THEN "partials/profile_success.html"
                                           ELSE "redirect:accounts:profile",
                                      FALSE, {}, "success", 0, u))
          ELSE /\ profiles' = profs
               /\ Respond(c, FormResponse(r, h, errors,
                                          "partials/profile_form.html",
                                          "accounts/profile.html", u))

\* @login_required, then get_or_create's SELECT
profile_view(c) ==
    /\ pc[c] = "idle"
    /\ IF session[c] = Anonymous
       THEN /\ \E m \in Methods, h \in BOOLEAN, p \in ProfilePosts :
                 Respond(c, Response(Request("profile", m, p), h, "na",
                                     "redirect:login", FALSE, {}, "none", 0,
                                     Anonymous))
            /\ UNCHANGED profiles
       ELSE IF HasProfile(session[c])
       THEN ProfileFinish(c, profiles)
       ELSE /\ Proceed(c, Request("profile", "none", NoPost), "profile_create")
            /\ UNCHANGED profiles
    /\ UNCHANGED <<users, contacts, subs, session, vreq, vresp>>

\* get_or_create's INSERT, then the rest of profile_view
profile_create(c) ==
    /\ pc[c] = "profile_create"
    /\ ProfileFinish(c, ProfileCreate(session[c]))
    /\ UNCHANGED <<users, contacts, subs, session, vreq, vresp>>

\* ------------------------------------------------------------------------
\* accounts: CustomLoginView and CustomLogoutView
\* ------------------------------------------------------------------------
LoginPosts ==
    {[username |-> T_ab, password |-> P_strong],
     [username |-> T_abc, password |-> P_strong],
     [username |-> T_ab, password |-> P_other]}

\* CustomLoginView: AuthenticationForm.is_valid(), form_valid, form_invalid
login_view(c) ==
    /\ pc[c] = "idle"
    /\ \E m \in Methods, h \in BOOLEAN, p \in LoginPosts :
         LET r == Request("login", m, p)
             user == authenticate(Strip(p.username), p.password)
         IN  IF m = "POST" /\ user # Anonymous
             THEN /\ session' = [session EXCEPT ![c] = user]
                  /\ Respond(c, Response(r, h, "yes",
                                         IF h THEN "HX-Redirect:success_url"
                                              ELSE "redirect:success_url",
                                         FALSE, {}, "none", 0, user))
             ELSE /\ UNCHANGED session
                  /\ IF m = "POST"
                     THEN Respond(c, Response(r, h, "no",
                                              IF h THEN "partials/login_form.html"
                                                   ELSE "registration/login.html",
                                              TRUE, {"__all__"}, "none", 0,
                                              session[c]))
                     ELSE Respond(c, Response(r, h, "na", "registration/login.html",
                                              FALSE, {}, "none", 0, session[c]))
    /\ UNCHANGED <<store, vreq, vresp>>

\* LogoutView without the override of dispatch: a GET ends the session too
logout_view_on_get(c) ==
    /\ pc[c] = "idle"
    /\ \E m \in Methods :
         /\ session' = [session EXCEPT ![c] = Anonymous]
         /\ Respond(c, Response(Request("logout", m, NoPost), FALSE, "na",
                                "logged_out", FALSE, {}, "none", 0, Anonymous))
    /\ UNCHANGED <<store, vreq, vresp>>

\* CustomLogoutView.dispatch
logout_view(c) ==
    /\ pc[c] = "idle"
    /\ \E m \in Methods :
         LET r == Request("logout", m, NoPost)
         IN  IF m = "GET"
             THEN /\ UNCHANGED session
                  /\ Respond(c, Response(r, FALSE, "na", "registration/logout.html",
                                         FALSE, {}, "none", 0, session[c]))
             ELSE /\ session' = [session EXCEPT ![c] = Anonymous]
                  /\ Respond(c, Response(r, FALSE, "na", "logged_out",
                                         FALSE, {}, "none", 0, Anonymous))
    /\ UNCHANGED <<store, vreq, vresp>>

\* ------------------------------------------------------------------------
\* core: ContactForm and contact_view
\* ------------------------------------------------------------------------
SubjectMin == 5

SubjectMax == 200

MessageMin == 10

\* the constraints the Contact model puts on subject and message
ContactSubjectValid(s) == Len(s) >= SubjectMin /\ Len(s) <= SubjectMax

ContactMessageValid(m) == Len(m) >= MessageMin

\* ContactForm(request.POST).is_valid(): the fields in error
ContactErrors(post) ==
    LET n == Strip(PostGet(post, "name"))
        e == Strip(PostGet(post, "email"))
        s == Strip(PostGet(post, "subject"))
        m == Strip(PostGet(post, "message"))
    IN  {x \in {"name"} : n = <<>> \/ ~NameRegex(n)}
        \cup {x \in {"email"} : ~EmailFieldValid(e)}
        \cup {x \in {"subject"} : ~ContactSubjectValid(s)}
        \cup {x \in {"message"} : ~ContactMessageValid(m)}

ContactPost(n, e, s, m) == [name |-> n, email |-> e, subject |-> s, message |-> m]

ContactPosts ==
    {ContactPost(T_Al, E_plain, S_5, M_10),
     ContactPost(T_Al, E_bang, S_5, M_10),
     ContactPost(T_Al, E_plain, S_4, M_10),
     ContactPost(T_A1, E_short, S_5, M_10)}

\* the inquiry saved over the one the same email has already made
ContactCreateOrUpdate(post) ==
    LET same == {x \in contacts : x.email = Strip(post.email)}
    IN  [id |-> IF same = {} THEN NextId(contacts)
                ELSE (CHOOSE x \in same : \A y \in same : x.id <= y.id).id,
         name |-> Strip(post.name), email |-> Strip(post.email),
         subject |-> Strip(post.subject), is_resolved |-> FALSE]

\* contact = form.save()
ContactCreate(post) ==
    [id |-> NextId(contacts), name |-> Strip(post.name),
     email |-> Strip(post.email), subject |-> Strip(post.subject),
     is_resolved |-> FALSE]

\* contact_view for a request body out of posts
contact_request(c, posts) ==
    /\ pc[c] = "idle"
    /\ \E m \in Methods, h \in BOOLEAN, p \in posts :
         LET r == Request("contact", m, p)
             errors == ContactErrors(r.post)
         IN  IF m = "POST" /\ errors = {}
             THEN /\ Cardinality(contacts) < MaxContacts
                  /\ contacts' = contacts \cup {ContactCreate(p)}
                  /\ Respond(c, Response(r, h, "yes",
                                         IF h THEN "partials/contact_success.html"
                                              ELSE "redirect:core:contact",
                                         FALSE, {}, "success",
                                         ContactCreate(p).id, session[c]))
             ELSE /\ UNCHANGED contacts
                  /\ Respond(c, FormResponse(r, h, errors,
                                             "partials/contact_form.html",
                                             "core/contact.html", session[c]))
    /\ UNCHANGED <<users, profiles, subs, session, vreq, vresp>>

contact_view(c) == contact_request(c, ContactPosts)

\* ------------------------------------------------------------------------
\* core: NewsletterForm and newsletter_subscribe
\* ------------------------------------------------------------------------
Subscribed(e) == \E x \in subs : x.email = e

\* the unique constraint on NewsletterSubscription.email
SubscriptionUnique(e) == ~Subscribed(e)

\* NewsletterForm(request.POST).is_valid(): the fields in error
NewsletterErrors(post) ==
    LET e == Strip(PostGet(post, "email"))
    IN  {x \in {"email"} : ~EmailFieldValid(e) \/ ~SubscriptionUnique(e)}

NewsletterPosts == {[email |-> e] : e \in {E_plain, E_bang, E_short}}

\* newsletter_subscribe up to form.is_valid()
newsletter_subscribe(c) ==
    /\ pc[c] = "idle"
    /\ \E m \in Methods, h \in BOOLEAN, p \in NewsletterPosts :
         LET r == Request("newsletter", m, p)
             errors == NewsletterErrors(r.post)
         IN  IF m = "POST" /\ errors = {}
             THEN Proceed(c, r, "newsletter_save")
             ELSE IF m = "POST" /\ h
             THEN Respond(c, Response(r, h, "no", "partials/newsletter_form.html",
                                      TRUE, errors, "none", 0, session[c]))
             ELSE Respond(c, Response(r, h, IF m = "POST" THEN "no" ELSE "na",
                                      "redirect:core:home", FALSE, {}, "none", 0,
                                      session[c]))
    /\ UNCHANGED <<store, session, vreq, vresp>>

\* try: subscription = form.save() ... except: ...
newsletter_save(c) ==
    /\ pc[c] = "newsletter_save"
    /\ \E h \in BOOLEAN :
         LET r == req[c]
             e == Strip(r.post.email)
         IN  IF SubscriptionUnique(e)
             THEN /\ subs' = subs \cup {[id |-> NextId(subs), email |-> e]}
                  /\ Respond(c, Response(r, h, "yes",
                                         IF h THEN "partials/newsletter_success.html"
                                              ELSE "redirect:core:home",
                                         FALSE, {}, "success", 0, session[c]))
             ELSE /\ UNCHANGED subs
                  /\ Respond(c, Response(r, h, "yes",
                                         IF h THEN "partials/newsletter_warning.html"
                                              ELSE "redirect:core:home",
                                         FALSE, {}, "warning", 0, session[c]))
    /\ UNCHANGED <<users, profiles, contacts, session, vreq, vresp>>

\* ------------------------------------------------------------------------
\* core: contact_list_view
\* ------------------------------------------------------------------------
\* a request whose parameters are in the query string (request.GET)
Query(view, method, get) == [view |-> view, method |-> method, post |-> get]

IsStaff(user) == \E x \in users : x.username = user /\ x.is_staff

LowerCase == <<"a", "b", "c", "d", "e", "f", "g", "h", "i", "j", "k", "l", "m",
               "n", "o", "p", "q", "r", "s", "t", "u", "v", "w", "x", "y", "z">>

UpperCase == <<"A", "B", "C", "D", "E", "F", "G", "H", "I", "J", "K", "L", "M",
               "N", "O", "P", "Q", "R", "S", "T", "U", "V", "W", "X", "Y", "Z">>

ToLower(ch) ==
    IF \E i \in 1..Len(UpperCase) : UpperCase[i] = ch
    THEN LowerCase[CHOOSE i \in 1..Len(UpperCase) : UpperCase[i] = ch]
    ELSE ch

\* field__icontains=query
IContains(text, query) ==
    \E i \in 0..(Len(text) - Len(query)) :
        \A j \in 1..Len(query) : ToLower(text[i + j]) = ToLower(query[j])

\* Q(name__icontains=...) | Q(email__icontains=...) | Q(subject__icontains=...)
SearchFilter(rows, search_query) ==
    IF search_query = <<>> THEN rows
    ELSE {x \in rows : \/ IContains(x.name, search_query)
                       \/ IContains(x.email, search_query)
                       \/ IContains(x.subject, search_query)}

\* the two status values filtered on exchanged
StatusFilterExchanged(rows, status_filter) ==
    IF status_filter = "resolved" THEN {x \in rows : ~x.is_resolved}
    ELSE IF status_filter = "pending" THEN {x \in rows : x.is_resolved}
    ELSE rows

StatusFilter(rows, status_filter) ==
    IF status_filter = "resolved" THEN {x \in rows : x.is_resolved}
    ELSE IF status_filter = "pending" THEN {x \in rows : ~x.is_resolved}
    ELSE rows

PageSize == 10

\* Paginator(contacts, 10).num_pages
NumPages(rows) ==
    IF rows = {} THEN 1 ELSE (Cardinality(rows) + PageSize - 1) \div PageSize

\* paginator.get_page(page_number): the first page when the number is not
\* an integer (0 stands for that), the last when it is out of range
GetPage(rows, page_number) ==
    LET number == IF page_number = 0 THEN 1
                  ELSE IF page_number < 1 \/ page_number > NumPages(rows)
                  THEN NumPages(rows)
                  ELSE page_number
        Rank(x) == Cardinality({y \in rows : y.id <= x.id})
    IN  {x \in rows : /\ Rank(x) > (number - 1) * PageSize
                      /\ Rank(x) <= number * PageSize}

ListQueries ==
    {[search |-> s, status |-> t, page |-> n] :
        s \in {<<>>, <<"A", "@">>},
        t \in {"", "resolved", "pending", "all"},
        n \in {0, 2}}

contact_list_view(c) ==
    /\ pc[c] = "idle"
    /\ \E m \in Methods, q \in ListQueries :
         LET r == Query("contact_list", m, q)
             listing == StatusFilter(SearchFilter(contacts, q.search), q.status)
             page_obj == GetPage(listing, q.page)
         IN  IF session[c] = Anonymous
             THEN Respond(c, Response(r, FALSE, "na", "redirect:login",
                                      FALSE, {}, "none", 0, session[c]))
             ELSE IF ~IsStaff(session[c])
             THEN Respond(c, Response(r, FALSE, "na", "redirect:core:home",
                                      FALSE, {}, "error", 0, session[c]))
             ELSE Respond(c, [Response(r, FALSE, "na", "core/contact_list.html",
                                       FALSE, {}, "none", 0, session[c])
                                 EXCEPT !.rows = {x.id : x \in page_obj},
                                        !.listing = {x.id : x \in listing}])
    /\ UNCHANGED <<store, session, vreq, vresp>>

\* ------------------------------------------------------------------------
\* Field-validation endpoints: each reads request.POST and the store and
\* returns an outcome.  @require_http_methods(["POST"]) answers any other
\* method with 405 before the view runs.
\* ------------------------------------------------------------------------
Empty == Outcome(200, "empty", "", 0, <<>>, 0, 0)

Error(message) == Outcome(200, "validation_error", message, 0, <<>>, 0, 0)

Warning(message) == Outcome(200, "validation_warning", message, 0, <<>>, 0, 0)

Success(message) == Outcome(200, "validation_success", message, 0, <<>>, 0, 0)

NotAllowed == Outcome(405, "not_allowed", "", 0, <<>>, 0, 0)

UsernameMin == 3

UsernameMax == 150

\* the lookup moved ahead of the length and character checks
validate_username_lookup_first(post) ==
    LET username == Strip(PostGet(post, "username"))
    IN  IF username = <<>> THEN Empty
        ELSE IF UsernameTaken(username)
        THEN Error("This username is already taken")
        ELSE IF Len(username) < UsernameMin
        THEN Error("Username must be at least 3 characters long")
        ELSE IF Len(username) > UsernameMax
        THEN Error("Username cannot exceed 150 characters")
        ELSE IF ~UsernameRegex(username)
        THEN Error("Username can only contain letters, numbers, and @.+-_ characters")
        ELSE Success("Username is available!")

validate_username(post) ==
    LET username == Strip(PostGet(post, "username"))
    IN  IF username = <<>> THEN Empty
        ELSE IF Len(username) < UsernameMin
        THEN Error("Username must be at least 3 characters long")
        ELSE IF Len(username) > UsernameMax
        THEN Error("Username cannot exceed 150 characters")
        ELSE IF ~UsernameRegex(username)
        THEN Error("Username can only contain letters, numbers, and @.+-_ characters")
        ELSE IF UsernameTaken(username)
        THEN Error("This username is already taken")
        ELSE Success("Username is available!")

NameMin == 2

validate_first_name(post) ==
    LET first_name == Strip(PostGet(post, "first_name"))
    IN  IF first_name = <<>> THEN Empty
        ELSE IF Len(first_name) < NameMin
        THEN Error("First name must be at least 2 characters long")
        ELSE IF ~NameRegex(first_name)
        THEN Error("First name can only contain letters and spaces")
        ELSE Success("First name looks good!")

validate_last_name(post) ==
    LET last_name == Strip(PostGet(post, "last_name"))
    IN  IF last_name = <<>> THEN Empty
        ELSE IF Len(last_name) < NameMin
        THEN Error("Last name must be at least 2 characters long")
        ELSE IF ~NameRegex(last_name)
        THEN Error("Last name can only contain letters and spaces")
        ELSE Success("Last name looks good!")

validate_email_register(post) ==
    LET email == Strip(PostGet(post, "email"))
    IN  IF email = <<>> THEN Empty
        ELSE IF EmailRegistered(email)
        THEN Error("An account with this email already exists")
        ELSE IF ~EmailRegex(email)
        THEN Error("Please enter a valid email address")
        ELSE Success("Email is available!")

PasswordMin == 8

\* [!@#$%^&*(),.?":{}|<>]
PasswordSymbols ==
    {"!", "@", "#", "$", "%", "^", "&", "*", "(", ")", ",", ".", "?", "\"",
     ":", "{", "}", "|", "<", ">"}

\* the unmet criterion put at the front of the list
FeedbackPrepended(feedback, met, text) ==
    IF met THEN feedback ELSE <<text>> \o feedback

\* the feedback list after one criterion: appended to when it is not met
Feedback(feedback, met, text) == IF met THEN feedback ELSE Append(feedback, text)

\* the counter raised for a criterion that is not met
ScoreOfUnmet(met) == IF met THEN 0 ELSE 1

Score(met) == IF met THEN 1 ELSE 0

validate_password(post) ==
    LET password == Strip(PostGet(post, "password1"))
        long   == Len(password) >= PasswordMin
        upper  == AnyIn(password, Upper)
        lower  == AnyIn(password, Lower)
        digit  == AnyIn(password, Digit)
        symbol == AnyIn(password, PasswordSymbols)
        f1 == Feedback(<<>>, long, "At least 8 characters")
        f2 == Feedback(f1, upper, "One uppercase letter")
        f3 == Feedback(f2, lower, "One lowercase letter")
        f4 == Feedback(f3, digit, "One number")
        f5 == Feedback(f4, symbol, "One special character")
    IN  IF password = <<>> THEN Empty
        ELSE Outcome(200, "password_strength", "",
                     Score(long) + Score(upper) + Score(lower) + Score(digit)
                         + Score(symbol),
                     f5, 0, Len(password))

\* the confirmation compared with the passwords of the stored accounts
\* instead of the primary password of the same request
validate_password2_stored(post) ==
    LET password2 == Strip(PostGet(post, "password2"))
    IN  IF password2 = <<>> THEN Empty
        ELSE IF \A x \in users : x.password # password2
        THEN Error("Passwords do not match")
        ELSE Success("Passwords match!")

validate_password2(post) ==
    LET password1 == Strip(PostGet(post, "password1"))
        password2 == Strip(PostGet(post, "password2"))
    IN  IF password2 = <<>> THEN Empty
        ELSE IF password1 # password2 THEN Error("Passwords do not match")
        ELSE Success("Passwords match!")

\* an unknown username answered with the error fragment
validate_login_username_rejecting(post) ==
    LET username == Strip(PostGet(post, "username"))
    IN  IF username = <<>> THEN Empty
        ELSE IF Len(username) < UsernameMin THEN Error("Username is too short")
        ELSE IF ~UsernameTaken(username) THEN Error("Username not found")
        ELSE Success("Username found!")

validate_login_username(post) ==
    LET username == Strip(PostGet(post, "username"))
    IN  IF username = <<>> THEN Empty
        ELSE IF Len(username) < UsernameMin THEN Error("Username is too short")
        ELSE IF ~UsernameTaken(username) THEN Warning("Username not found")
        ELSE Success("Username found!")

LoginPasswordMin == 3

\* a view that keeps count: asked again, it answers that it was asked before
validate_login_password_counting(post) ==
    LET password == Strip(PostGet(post, "password"))
    IN  IF password = <<>> THEN Empty
        ELSE IF vresp # NoOutcome THEN Error("Too many attempts")
        ELSE IF Len(password) < LoginPasswordMin THEN Error("Password is required")
        ELSE Success("Password entered")

validate_login_password(post) ==
    LET password == Strip(PostGet(post, "password"))
    IN  IF password = <<>> THEN Empty
        ELSE IF Len(password) < LoginPasswordMin THEN Error("Password is required")
        ELSE Success("Password entered")

PhoneMin == 10

PhoneMax == 15

\* re.sub(r'[^\d]', '', phone)
DigitsOnly(s) == SelectSeq(s, LAMBDA ch : ch \in Digit)

validate_phone(post) ==
    LET phone == Strip(PostGet(post, "phone_number"))
        digits_only == DigitsOnly(phone)
    IN  IF phone = <<>> THEN Empty
        ELSE IF Len(digits_only) < PhoneMin
        THEN Error("Phone number must have at least 10 digits")
        ELSE IF Len(digits_only) > PhoneMax THEN Error("Phone number is too long")
        ELSE Success("Phone number is valid!")

validate_website(post) ==
    LET website == Strip(PostGet(post, "website"))
    IN  IF website = <<>> THEN Empty
        ELSE IF ~UrlRegex(website)
        THEN Error("Please enter a valid URL (include http:// or https://)")
        ELSE Success("Website URL is valid!")

\* the name taken from the username field when the request carries one
validate_name_from_username(post) ==
    LET name == IF "username" \in DOMAIN post
                THEN Strip(PostGet(post, "username"))
                ELSE Strip(PostGet(post, "name"))
    IN  IF name = <<>> THEN Empty
        ELSE IF Len(name) < NameMin
        THEN Error("Name must be at least 2 characters long")
        ELSE IF ~NameRegex(name)
        THEN Error("Name can only contain letters and spaces")
        ELSE Success("Name looks good!")

validate_name(post) ==
    LET name == Strip(PostGet(post, "name"))
    IN  IF name = <<>> THEN Empty
        ELSE IF Len(name) < NameMin
        THEN Error("Name must be at least 2 characters long")
        ELSE IF ~NameRegex(name)
        THEN Error("Name can only contain letters and spaces")
        ELSE Success("Name looks good!")

Contacted(e) == \E x \in contacts : x.email = e

\* the shape check moved ahead of the lookup
validate_email_shape_first(post) ==
    LET email == Strip(PostGet(post, "email"))
    IN  IF email = <<>> THEN Empty
        ELSE IF ~EmailRegex(email) THEN Error("Please enter a valid email address")
        ELSE IF Contacted(email) THEN Warning("This email has contacted us before")
        ELSE Success("Email is valid!")

validate_email(post) ==
    LET email == Strip(PostGet(post, "email"))
    IN  IF email = <<>> THEN Empty
        ELSE IF Contacted(email) THEN Warning("This email has contacted us before")
        ELSE IF ~EmailRegex(email) THEN Error("Please enter a valid email address")
        ELSE Success("Email is valid!")

validate_subject(post) ==
    LET subject == Strip(PostGet(post, "subject"))
    IN  IF subject = <<>> THEN Empty
        ELSE IF Len(subject) < SubjectMin
        THEN Error("Subject must be at least 5 characters long")
        ELSE IF Len(subject) > SubjectMax
        THEN Error("Subject is too long (max 200 characters)")
        ELSE Success("Subject looks good!")

\* len(message.split()): the maximal runs of characters that are not whitespace
WordCount(s) ==
    Cardinality({i \in 1..Len(s) :
                    /\ s[i] \notin Whitespace
                    /\ (i = 1 \/ s[i - 1] \in Whitespace)})

validate_message(post) ==
    LET message == Strip(PostGet(post, "message"))
    IN  IF message = <<>> THEN Empty
        ELSE IF Len(message) < MessageMin
        THEN Error("Message must be at least 10 characters long")
        ELSE Outcome(200, "validation_success", "Message looks good!",
                     0, <<>>, WordCount(message), Len(message))

validate_newsletter_email(post) ==
    LET email == Strip(PostGet(post, "email"))
    IN  IF email = <<>> THEN Empty
        ELSE IF Subscribed(email) THEN Warning("This email is already subscribed")
        ELSE IF ~EmailRegex(email) THEN Error("Please enter a valid email address")
        ELSE Success("Email is ready for subscription!")

\* ------------------------------------------------------------------------
\* Values posted to the validation endpoints: every text over Alphabet of
\* at most MaxLen characters, and the texts below that reach the longer
\* thresholds and shapes of the checks.
\* ------------------------------------------------------------------------
Alphabet == {"a", "B", "1", "!", " "}

TextsUpTo(n) == UNION {[1..k -> Alphabet] : k \in 0..n}

Pad(s) == <<" ">> \o s \o <<"\t">>

LongTexts ==
    {Rep("a", n) : n \in {UsernameMax, UsernameMax + 1, SubjectMax, SubjectMax + 1}}
    \cup {Rep("a", UsernameMax) \o <<"!">>, Rep("1", PhoneMax + 1)}

ShapedTexts ==
    {T_ab, T_abc, Pad(T_ab), Pad(T_abc), <<"a", ".", "b">>, <<"a", "_", "b">>,
     E_plain, E_bang, E_short, Pad(E_plain), Pad(E_bang),
     <<"a", "@", "b", ".", "c">>, <<"a", "@", ".", "c", "c">>,
     P_strong, P_other, <<"A", "a", "1", "_", "a", "a", "a", "a">>,
     <<" ", "A", "a", "1", "!", "a", "a", "a">>,
     W_plain, W_space, <<"a", ".", "b", "c">>,
     <<"h", "t", "t", "p", "s", ":", "/", "/", "w", "w", "w", ".", "a", ".", "b", "c", "/", "x">>,
     S_4, S_5, M_10, <<"n", "i", "n", "e", " ", "c", "h", "a", "r">>,
     Rep("1", PhoneMin), Rep("1", PhoneMin - 1),
     <<"+", "1", " ", "(", "5", "5", "5", ")", " ", "1", "2", "3", "-", "4", "5", "6", "7">>}

PostedTexts == TextsUpTo(MaxLen) \cup LongTexts \cup ShapedTexts

\* a field of the same form that the endpoint reading field key has no use for
Extra(key) == IF key = "username" THEN "email" ELSE "username"

\* the POST bodies an endpoint reading field key is sent: with the field
\* (and, for the confirmation, the primary password), without it, or with
\* the field and another field of the form
Posts(key) ==
    {NoPost} \cup {[k \in {key} |-> t] : t \in PostedTexts}
    \cup {[k \in {key, Extra(key)} |-> IF k = key THEN t ELSE T_abc] :
            t \in ShapedTexts}

ConfirmationPosts ==
    {NoPost, [password1 |-> P_strong]}
    \cup {[password1 |-> a, password2 |-> b] :
            a, b \in TextsUpTo(MaxLen - 1) \cup {P_strong, Pad(P_strong)}}

\* one request to a validation endpoint and its answer
Validate(endpoint, view(_), posts) ==
    /\ vresp = NoOutcome
    /\ \E m \in Methods, p \in posts :
         /\ vreq' = Request(endpoint, m, p)
         /\ vresp' = IF m = "POST" THEN view(p) ELSE NotAllowed
    /\ UNCHANGED <<store, session, pc, req, resp>>

\* the client takes the fragment; the next validation request can follow
ValidateReturn ==
    /\ vresp # NoOutcome
    /\ vreq' = NoReq
    /\ vresp' = NoOutcome
    /\ UNCHANGED <<store, session, pc, req, resp>>

\* the view each validation path is routed to
ViewOf(endpoint, post) ==
    CASE endpoint = "validate_username" -> validate_username(post)
      [] endpoint = "validate_first_name" -> validate_first_name(post)
      [] endpoint = "validate_last_name" -> validate_last_name(post)
      [] endpoint = "validate_email_register" -> validate_email_register(post)
      [] endpoint = "validate_password" -> validate_password(post)
      [] endpoint = "validate_password2" -> validate_password2(post)
      [] endpoint = "validate_login_username" -> validate_login_username(post)
      [] endpoint = "validate_login_password" -> validate_login_password(post)
      [] endpoint = "validate_phone" -> validate_phone(post)
      [] endpoint = "validate_website" -> validate_website(post)
      [] endpoint = "validate_name" -> validate_name(post)
      [] endpoint = "validate_email" -> validate_email(post)
      [] endpoint = "validate_subject" -> validate_subject(post)
      [] endpoint = "validate_message" -> validate_message(post)
      [] endpoint = "validate_newsletter_email" -> validate_newsletter_email(post)

\* the client sends the request it was just answered once more (the same
\* endpoint, method and body) and is answered again
ValidateAgain ==
    /\ vresp # NoOutcome
    /\ vreq' = vreq
    /\ vresp' = IF vreq.method = "POST" THEN ViewOf(vreq.view, vreq.post)
                                        ELSE NotAllowed
    /\ UNCHANGED <<store, session, pc, req, resp>>

ValidationNext ==
    \/ Validate("validate_username", validate_username, Posts("username"))
    \/ Validate("validate_first_name", validate_first_name, Posts("first_name"))
    \/ Validate("validate_last_name", validate_last_name, Posts("last_name"))
    \/ Validate("validate_email_register", validate_email_register, Posts("email"))
    \/ Validate("validate_password", validate_password, Posts("password1"))
    \/ Validate("validate_password2", validate_password2, ConfirmationPosts)
    \/ Validate("validate_login_username", validate_login_username, Posts("username"))
    \/ Validate("validate_login_password", validate_login_password, Posts("password"))
    \/ Validate("validate_phone", validate_phone, Posts("phone_number"))
    \/ Validate("validate_website", validate_website, Posts("website"))
    \/ Validate("validate_name", validate_name, Posts("name"))
    \/ Validate("validate_email", validate_email, Posts("email"))
    \/ Validate("validate_subject", validate_subject, Posts("subject"))
    \/ Validate("validate_message", validate_message, Posts("message"))
    \/ Validate("validate_newsletter_email", validate_newsletter_email, Posts("email"))
    \/ ValidateAgain
    \/ ValidateReturn

\* Store contents the validation endpoints are asked against: the empty
\* store, and what registrations, inquiries and subscriptions with the
\* texts above leave behind once their requests are answered.
UserRow(u, e) ==
    [username |-> u, email |-> e, password |-> P_strong, is_staff |-> FALSE]

ProfileRow(i, u) == [id |-> i, user |-> u, website |-> <<>>]

ContactRow(i, e) ==
    [id |-> i, name |-> T_Al, email |-> e, subject |-> S_5, is_resolved |-> FALSE]

SubscriptionRow(i, e) == [id |-> i, email |-> e]

Snapshot(u, p, k, s) == [users |-> u, profiles |-> p, contacts |-> k, subs |-> s]

Snapshots ==
    {Snapshot({}, {}, {}, {}),
     Snapshot({UserRow(T_ab, E_plain)}, {ProfileRow(1, T_ab)},
              {ContactRow(1, E_plain)}, {SubscriptionRow(1, E_plain)}),
     Snapshot({UserRow(T_abc, E_bang)}, {ProfileRow(1, T_abc)},
              {ContactRow(1, E_bang)}, {SubscriptionRow(1, E_bang)}),
     Snapshot({UserRow(T_ab, E_plain), UserRow(T_abc, E_bang)},
              {ProfileRow(1, T_ab), ProfileRow(2, T_abc)},
              {ContactRow(1, E_plain), ContactRow(2, E_plain)},
              {SubscriptionRow(1, E_bang), SubscriptionRow(2, E_plain)})}

ValidationInit ==
    /\ \E s \in Snapshots :
         /\ users = s.users
         /\ profiles = s.profiles
         /\ contacts = s.contacts
         /\ subs = s.subs
    /\ session = [c \in Clients |-> Anonymous]
    /\ pc = [c \in Clients |-> "idle"]
    /\ req = [c \in Clients |-> NoReq]
    /\ resp = NoResp
    /\ vreq = NoReq
    /\ vresp = NoOutcome

\* ------------------------------------------------------------------------
\* Specifications.  accounts and core share no table, so the requests of
\* each application are also explored on their own; the validation
\* endpoints change nothing and are explored against given store contents.
\* ------------------------------------------------------------------------
AccountsNext ==
    \E c \in Clients :
        \/ register_view(c)
        \/ register_save(c)
        \/ register_profile(c)
        \/ register_profile_create(c)
        \/ profile_view(c)
        \/ profile_create(c)
        \/ login_view(c)
        \/ logout_view(c)

CoreNext ==
    \E c \in Clients :
        \/ contact_view(c)
        \/ newsletter_subscribe(c)
        \/ newsletter_save(c)

Next == AccountsNext \/ CoreNext \/ ValidationNext

Spec == Init /\ [][Next]_vars

AccountsSpec == Init /\ [][AccountsNext]_vars

CoreSpec == Init /\ [][CoreNext]_vars

\* Store contents contact_list_view is asked against: an account and a
\* staff account, and no inquiry, a pending and a resolved one, or one more
\* than a page holds, every other one resolved by the staff.
StaffRow(u, e) == [UserRow(u, e) EXCEPT !.is_staff = TRUE]

ResolvedRow(i, e) == [ContactRow(i, e) EXCEPT !.is_resolved = TRUE]

ListingSnapshots ==
    {Snapshot({UserRow(T_ab, E_plain), StaffRow(T_abc, E_bang)},
              {ProfileRow(1, T_ab), ProfileRow(2, T_abc)}, k, {}) :
        k \in {{},
               {ContactRow(1, E_plain), ResolvedRow(2, E_bang)},
               {IF i % 2 = 0 THEN ResolvedRow(i, E_plain) ELSE ContactRow(i, E_bang) :
                    i \in 1..(PageSize + 1)}}}

ListingInit ==
    /\ \E s \in ListingSnapshots :
         /\ users = s.users
         /\ profiles = s.profiles
         /\ contacts = s.contacts
         /\ subs = s.subs
    /\ session = [c \in Clients |-> Anonymous]
    /\ pc = [c \in Clients |-> "idle"]
    /\ req = [c \in Clients |-> NoReq]
    /\ resp = NoResp
    /\ vreq = NoReq
    /\ vresp = NoOutcome

ListingNext ==
    \E c \in Clients :
        \/ login_view(c)
        \/ logout_view(c)
        \/ contact_list_view(c)

ListingSpec == ListingInit /\ [][ListingNext]_vars

\* Registration, login and the profile page on their own, for one account.
ProfileRegisterPosts == {RegisterPost(T_ab, T_Al, E_plain, P_strong, P_strong)}

ProfilesNext ==
    \E c \in Clients :
        \/ register_request(c, ProfileRegisterPosts)
        \/ register_save(c)
        \/ register_profile(c)
        \/ register_profile_create(c)
        \/ login_view(c)
        \/ profile_view(c)
        \/ profile_create(c)

ProfilesSpec == Init /\ [][ProfilesNext]_vars

\* The same requests and logout: every request that touches a session.
SessionsNext ==
    \/ ProfilesNext
    \/ \E c \in Clients : logout_view(c)

SessionsSpec == Init /\ [][SessionsNext]_vars

\* The contact form and the live check of its email field, side by side:
\* the emails checked are those the form is posted with.
ContactEmailPosts == {[email |-> p.email] : p \in ContactPosts}

RepeatContactNext ==
    \/ \E c \in Clients : contact_view(c)
    \/ Validate("validate_email", validate_email, ContactEmailPosts)
    \/ ValidateReturn

RepeatContactSpec == Init /\ [][RepeatContactNext]_vars

\* The forms that take a name and the live checks of their name fields,
\* side by side, on the same names.
NameTexts == {<<"A">>, T_Al, T_A1}

NameRegisterPosts ==
    {RegisterPost(T_ab, n, E_plain, P_strong, P_strong) : n \in NameTexts}
    \cup {[RegisterPost(T_ab, T_Al, E_plain, P_strong, P_strong)
              EXCEPT !.last_name = n] : n \in NameTexts}

NameContactPosts == {ContactPost(n, E_plain, S_5, M_10) : n \in NameTexts}

NamePosts(key) == {[k \in {key} |-> n] : n \in NameTexts}

NameFormsNext ==
    \/ \E c \in Clients :
          \/ register_request(c, NameRegisterPosts)
          \/ register_save(c)
          \/ register_profile(c)
          \/ register_profile_create(c)
          \/ contact_request(c, NameContactPosts)
    \/ Validate("validate_first_name", validate_first_name, NamePosts("first_name"))
    \/ Validate("validate_last_name", validate_last_name, NamePosts("last_name"))
    \/ Validate("validate_name", validate_name, NamePosts("name"))
    \/ ValidateReturn

NameFormsSpec == Init /\ [][NameFormsNext]_vars

ValidationSpec == ValidationInit /\ [][ValidationNext]_vars

\* ------------------------------------------------------------------------
\* Properties of the validation endpoints (ValidationSpec)
\* ------------------------------------------------------------------------
\* the form field each validation endpoint reads its value from
FieldRead ==
    [validate_username |-> "username", validate_first_name |-> "first_name",
     validate_last_name |-> "last_name", validate_email_register |-> "email",
     validate_password |-> "password1", validate_password2 |-> "password2",
     validate_login_username |-> "username",
     validate_login_password |-> "password", validate_phone |-> "phone_number",
     validate_website |-> "website", validate_name |-> "name",
     validate_email |-> "email", validate_subject |-> "subject",
     validate_message |-> "message", validate_newsletter_email |-> "email"]

Answered(endpoint) == vreq.view = endpoint /\ vreq.method = "POST"

\* the value the answered request carries in field key, as submitted
Submitted(key) == PostGet(vreq.post, key)

\* C7: for every validation endpoint, a POST whose field is missing, empty
\* or made of whitespace only is answered with status 200 and an empty body:
\* no success, warning, error or strength fragment, and no failure.
C7_BlankIsNeutral ==
    \A endpoint \in DOMAIN FieldRead :
        (Answered(endpoint) /\ AllIn(Submitted(FieldRead[endpoint]), Whitespace))
            => vresp = Empty

\* C7 witness: a confirmation made of two blanks, sent with a primary
\* password, was answered with the empty body.
C7_Witness ==
    /\ Answered("validate_password2")
    /\ Submitted("password2") = <<" ", " ">>
    /\ Submitted("password1") # <<>>
    /\ vresp = Empty

\* C8: validate_username checks length >= 3, length <= 150, the character
\* set and the lookup in that order and answers with the error of the first
\* check that fails; it answers success exactly when all four pass.
C8_UsernameCheckOrder ==
    LET u == Strip(Submitted("username"))
        long  == Len(u) >= 3
        short == Len(u) <= 150
        chars == AllIn(u, UsernameChars)
        free  == \A x \in users : x.username # u
    IN  (Answered("validate_username") /\ u # <<>>) =>
          /\ ~long => vresp = Error("Username must be at least 3 characters long")
          /\ (long /\ ~short) => vresp = Error("Username cannot exceed 150 characters")
          /\ (long /\ short /\ ~chars) =>
                vresp = Error("Username can only contain letters, numbers, and @.+-_ characters")
          /\ (long /\ short /\ chars /\ ~free) =>
                vresp = Error("This username is already taken")
          /\ (vresp.kind = "validation_success") <=> (long /\ short /\ chars /\ free)

\* C8 witness: "ab" was checked while an account named "ab" exists, and the
\* answer was the length error.
C8_Witness ==
    /\ Answered("validate_username")
    /\ Submitted("username") = T_ab
    /\ \E x \in users : x.username = T_ab
    /\ vresp = Error("Username must be at least 3 characters long")

\* the answers of the three email endpoints to an email found in the store
EmailFound ==
    [validate_email_register |-> Error("An account with this email already exists"),
     validate_email |-> Warning("This email has contacted us before"),
     validate_newsletter_email |-> Warning("This email is already subscribed")]

\* the emails each of the three endpoints looks its value up in
EmailsStored ==
    [validate_email_register |-> {x.email : x \in users},
     validate_email |-> {x.email : x \in contacts},
     validate_newsletter_email |-> {x.email : x \in subs}]

\* C9: each of the three email endpoints looks the email up before it checks
\* its shape: an email in the store gets the error (register) or the warning
\* (contact, newsletter) whatever its shape; an email not in the store gets
\* the valid-address error when it does not have the shape and success when
\* it has.
C9_EmailLookupFirst ==
    \A endpoint \in DOMAIN EmailFound :
        LET e == Strip(Submitted("email"))
        IN  (Answered(endpoint) /\ e # <<>>) =>
              IF e \in EmailsStored[endpoint]
              THEN vresp = EmailFound[endpoint]
              ELSE IF EmailRegex(e)
              THEN vresp.kind = "validation_success"
              ELSE vresp = Error("Please enter a valid email address")

\* C9 witness: an email that has contacted before and does not have the
\* shape the view checks was answered with the warning.
C9_Witness ==
    /\ Answered("validate_email")
    /\ Strip(Submitted("email")) = E_bang
    /\ ~EmailRegex(E_bang)
    /\ \E x \in contacts : x.email = E_bang
    /\ vresp = Warning("This email has contacted us before")

\* the five criteria of a password, in the order of the feedback list
Criteria(p) ==
    << [met |-> Len(p) >= 8, text |-> "At least 8 characters"],
       [met |-> \E i \in 1..Len(p) : p[i] \in Upper, text |-> "One uppercase letter"],
       [met |-> \E i \in 1..Len(p) : p[i] \in Lower, text |-> "One lowercase letter"],
       [met |-> \E i \in 1..Len(p) : p[i] \in Digit, text |-> "One number"],
       [met |-> \E i \in 1..Len(p) : p[i] \in PasswordSymbols,
        text |-> "One special character"] >>

Unmet(p) ==
    LET open == SelectSeq(Criteria(p), LAMBDA k : ~k.met)
    IN  [i \in 1..Len(open) |-> open[i].text]

\* the strength fragment the claim describes for password p
StrengthOf(p) ==
    /\ vresp.status = 200
    /\ vresp.kind = "password_strength"
    /\ vresp.strength \in 0..5
    /\ vresp.strength = Len(SelectSeq(Criteria(p), LAMBDA k : k.met))
    /\ vresp.feedback = Unmet(p)
    /\ vresp.strength + Len(vresp.feedback) = 5

\* C10 as claimed: every non-empty password submitted to validate_password
\* is answered with the strength fragment, never the empty body, with the
\* score the number of criteria met and the list the unmet ones in order.
C10_EveryNonEmptyPassword ==
    (Answered("validate_password") /\ Submitted("password1") # <<>>)
        => StrengthOf(Submitted("password1"))

\* C10 as amended: every password that is non-empty once leading and
\* trailing whitespace is stripped is answered with the strength fragment,
\* the criteria taken on the stripped password: score in 0..5 the number of
\* criteria met, the list the unmet ones in the fixed order, score plus the
\* length of the list 5.
C10_StrengthOfStrippedPassword ==
    (Answered("validate_password") /\ Strip(Submitted("password1")) # <<>>)
        => StrengthOf(Strip(Submitted("password1")))

\* C10 witness: a password of eight characters that starts with a blank was
\* scored as the seven characters left: four criteria met, the length unmet.
C10_Witness ==
    /\ Answered("validate_password")
    /\ Submitted("password1") = <<" ", "A", "a", "1", "!", "a", "a", "a">>
    /\ vresp.strength = 4
    /\ vresp.feedback = <<"At least 8 characters">>

\* the unmet criteria are listed in the fixed order length, uppercase,
\* lowercase, digit, symbol
InFixedOrder(feedback) ==
    LET order == <<"At least 8 characters", "One uppercase letter",
                   "One lowercase letter", "One number", "One special character">>
    IN  \E keep \in SUBSET (1..5) :
            feedback = SelectSeq(order, LAMBDA t :
                          \E i \in keep : order[i] = t)

\* C11 as claimed: validate_password answers "Aa1!aaaa" with score 5 and an
\* empty criteria list, and "aaaaaaaa" with score 1 and four unmet criteria
\* in the fixed order.
C11_ExamplesAsClaimed ==
    Answered("validate_password") =>
        /\ Submitted("password1") = P_strong
              => (vresp.strength = 5 /\ vresp.feedback = <<>>)
        /\ Submitted("password1") = P_other
              => /\ vresp.strength = 1
                 /\ Len(vresp.feedback) = 4
                 /\ InFixedOrder(vresp.feedback)

\* C11 as amended: validate_password answers "Aa1!aaaa" with score 5 and an
\* empty criteria list, and "aaaaaaaa" (long enough, with a lowercase
\* letter) with score 2 and the three unmet criteria uppercase, digit and
\* symbol, in that order.
C11_Examples ==
    Answered("validate_password") =>
        /\ Submitted("password1") = P_strong
              => (vresp.strength = 5 /\ vresp.feedback = <<>>)
        /\ Submitted("password1") = P_other
              => /\ vresp.strength = 2
                 /\ vresp.feedback = <<"One uppercase letter", "One number",
                                       "One special character">>
                 /\ InFixedOrder(vresp.feedback)

\* C11 witness: "aaaaaaaa" was submitted and scored 2, three criteria listed.
C11_Witness ==
    /\ Answered("validate_password")
    /\ Submitted("password1") = P_other
    /\ vresp.kind = "password_strength"
    /\ vresp.strength = 2
    /\ Len(vresp.feedback) = 3

\* C12 as claimed: a POST to validate_password2 with a non-empty
\* confirmation is answered with success when the confirmation equals the
\* primary password of the same request and with the do-not-match error when
\* the two differ, whatever the store holds.
C12_ConfirmationAsSubmitted ==
    (Answered("validate_password2") /\ Submitted("password2") # <<>>) =>
        vresp = IF Submitted("password2") = Submitted("password1")
                THEN Success("Passwords match!")
                ELSE Error("Passwords do not match")

\* C12 as amended: a POST to validate_password2 whose confirmation is
\* non-empty once leading and trailing whitespace is stripped is answered
\* with success when the stripped confirmation equals the stripped primary
\* password of the same request and with the do-not-match error when they
\* differ; the answer is this function of the two submitted values whatever
\* the store holds and whatever was asked before.
C12_ConfirmationOfStripped ==
    (Answered("validate_password2") /\ Strip(Submitted("password2")) # <<>>) =>
        vresp = IF Strip(Submitted("password2")) = Strip(Submitted("password1"))
                THEN Success("Passwords match!")
                ELSE Error("Passwords do not match")

\* C12 witness: a confirmation that differs from the primary password only
\* by the whitespace around it was answered with success, against a store
\* that holds accounts.
C12_Witness ==
    /\ Answered("validate_password2")
    /\ Submitted("password1") = P_strong
    /\ Submitted("password2") = Pad(P_strong)
    /\ users # {}
    /\ vresp = Success("Passwords match!")

\* C13: validate_login_username answers a username (the field value without
\* the whitespace around it, not blank) of fewer than 3 characters with the
\* too-short error whether or not an account of that name exists, a username
\* of 3 or more characters that no account has with a warning and not an
\* error, and one that an account has with success; it answers success only
\* for a username an account has.
C13_LoginUsernameOutcomes ==
    LET u == Strip(Submitted("username"))
        found == \E x \in users : x.username = u
    IN  (Answered("validate_login_username") /\ u # <<>>) =>
          /\ Len(u) < 3 => vresp = Error("Username is too short")
          /\ (Len(u) >= 3 /\ ~found) =>
                /\ vresp = Warning("Username not found")
                /\ vresp.kind # "validation_error"
          /\ (Len(u) >= 3 /\ found) => vresp = Success("Username found!")
          /\ vresp.kind = "validation_success" => found

\* C13 witness: "abc" was asked for while accounts exist and none is named
\* "abc", and the answer was the warning.
C13_Witness ==
    /\ Answered("validate_login_username")
    /\ Strip(Submitted("username")) = T_abc
    /\ users # {}
    /\ \A x \in users : x.username # T_abc
    /\ vresp.kind = "validation_warning"

Only(post, keys) == [k \in (DOMAIN post) \cap keys |-> post[k]]

\* the bodies of the answers to a POST: empty, or one of the fragments
Fragments ==
    {"empty", "validation_success", "validation_warning", "validation_error",
     "password_strength"}

\* the answer the contract allows to the request in vreq when the endpoint
\* reads the fields in keys and nothing else of the request
Contract(endpoint, keys) ==
    IF vreq.method # "POST"
    THEN vresp = NotAllowed
    ELSE /\ vresp.status = 200
         /\ vresp.kind \in Fragments
         /\ vresp = ViewOf(endpoint, Only(vreq.post, keys))

\* C15 as claimed: every validation endpoint rejects a request that is not
\* a POST without running a check, and answers every POST with status 200
\* and an empty body or one fragment that depends on one named field of the
\* request only.
C15_OneFieldEach ==
    \A endpoint \in DOMAIN FieldRead :
        vreq.view = endpoint => Contract(endpoint, {FieldRead[endpoint]})

\* C15 as amended: every validation endpoint rejects a request that is not
\* a POST without running a check, and answers every POST with status 200
\* and an empty body or one fragment; the answer depends on one named field
\* of the request only, except for validate_password2, which reads two:
\* password2 and password1.
C15_OneFieldButConfirmation ==
    \A endpoint \in DOMAIN FieldRead :
        vreq.view = endpoint =>
            Contract(endpoint,
                     IF endpoint = "validate_password2"
                     THEN {"password1", "password2"}
                     ELSE {FieldRead[endpoint]})

\* C15 witness: validate_name was sent a name together with a username and
\* answered for the name alone.
C15_Witness ==
    /\ Answered("validate_name")
    /\ DOMAIN vreq.post = {"name", "username"}
    /\ Submitted("name") = E_plain
    /\ vresp = Error("Name can only contain letters and spaces")

\* ------------------------------------------------------------------------
\* Properties of the submission handlers (AccountsSpec, CoreSpec)
\* ------------------------------------------------------------------------
\* the value the answered request carried in field key, as the form binds it
Posted(key) == Strip(PostGet(resp.post, key))

Served(view) == resp.view = view /\ resp.method = "POST"

\* C1: in every reachable store no two Account rows share an email and no
\* two NewsletterSubscription rows share an email.
C1_EmailsUnique ==
    /\ \A x, y \in users : x.email = y.email => x = y
    /\ \A x, y \in subs : x.email = y.email => x = y

\* C2: a registration that passed validation and then fails at persistence
\* is caught and answered with a message: no register request ends in an
\* uncaught exception.
C2_DuplicateUsernameCaught ==
    Served("register") => resp.kind \notin {"IntegrityError", "AttributeError"}

\* C3: a newsletter POST whose email already has a subscription (it did not
\* create the one there is) is answered with the already-subscribed warning,
\* and no email is subscribed twice.
C3_DuplicateSubscriptionWarns ==
    /\ (Served("newsletter") /\ Subscribed(Posted("email")) /\ resp.msg # "success")
          => resp.msg = "warning"
    /\ \A x, y \in subs : x.email = y.email => x = y

\* C4: a contact POST with a subject of 4 characters persists nothing and
\* gets the form back with an error on subject; a valid POST persists one
\* new inquiry and its confirmation refers to that inquiry's id.
C4_ShortSubjectThenValid ==
    /\ (Served("contact") /\ Len(Posted("subject")) = 4)
          => /\ resp.valid = "no"
             /\ resp.bound
             /\ "subject" \in resp.errors
    /\ \A x \in contacts : Len(x.subject) # 4
    /\ (Served("contact") /\ resp.valid = "yes")
          => /\ resp.msg = "success"
             /\ \E x \in contacts :
                   /\ x.id = resp.ref
                   /\ x.email = Posted("email")
                   /\ x.subject = Posted("subject")
                   /\ \A y \in contacts : y.id = x.id => y = x

\* C5: every register, profile or contact POST whose form fails validation
\* is answered, with or without the HX-Request header, with the submitted
\* form and its errors, and the request persists nothing.
C5_InvalidPostShowsErrors ==
    [][(resp' # resp /\ resp'.view \in {"register", "profile", "contact"}
            /\ resp'.method = "POST" /\ resp'.valid = "no")
          => /\ resp'.bound
             /\ resp'.errors # {}
             /\ store' = store]_vars

\* C6: after a register POST whose form is valid, the account exists, it
\* has a profile, the session is authenticated as it, and the response is
\* the redirect to home (the HX-Redirect header for an HTMX request).
C6_RegisterLogsIn ==
    (Served("register") /\ resp.valid = "yes")
        => /\ \E x \in users : x.username = Posted("username")
           /\ \E x \in profiles : x.user = Posted("username")
           /\ resp.session = Posted("username")
           /\ resp.kind = IF resp.htmx THEN "HX-Redirect:core:home"
                                       ELSE "redirect:core:home"

\* ------------------------------------------------------------------------
\* Properties of the staff listing (ListingSpec)
\* ------------------------------------------------------------------------
\* the ids of the Contact rows in rows
Ids(rows) == {x.id : x \in rows}

\* C16: a contact-list request by an authenticated user who is not staff is
\* answered with the redirect to home and the permission message and no
\* inquiry; only a staff user is answered with the listing, which for
\* status=resolved holds the resolved inquiries only, for status=pending the
\* unresolved ones only, and for any other status all of them (of those the
\* search matches, when there is one), the page shown being part of it.
C16_StaffOnlyListing ==
    resp.view = "contact_list" =>
        LET user == resp.session
            status == resp.post.status
            found == SearchFilter(contacts, resp.post.search)
        IN  /\ (user # Anonymous /\ ~IsStaff(user)) =>
                  /\ resp.kind = "redirect:core:home"
                  /\ resp.msg = "error"
                  /\ resp.rows = {} /\ resp.listing = {}
            /\ (resp.kind = "core/contact_list.html" \/ resp.rows # {}
                    \/ resp.listing # {}) => IsStaff(user)
            /\ IsStaff(user) =>
                  /\ resp.kind = "core/contact_list.html"
                  /\ resp.rows \subseteq resp.listing
                  /\ (resp.listing # {}) => (resp.rows # {})
                  /\ status = "resolved" =>
                        resp.listing = Ids({x \in found : x.is_resolved})
                  /\ status = "pending" =>
                        resp.listing = Ids({x \in found : ~x.is_resolved})
                  /\ status \notin {"resolved", "pending"} =>
                        resp.listing = Ids(found)
                  /\ (status \notin {"resolved", "pending"}
                        /\ resp.post.search = <<>>) =>
                        resp.listing = Ids(contacts)

\* C16 witness: a staff user asked for the resolved inquiries of a store
\* that holds more inquiries than a page and unresolved ones among them,
\* and was shown resolved ones.
C16_Witness ==
    /\ resp.view = "contact_list"
    /\ IsStaff(resp.session)
    /\ resp.post.status = "resolved"
    /\ resp.rows # {}
    /\ Cardinality(contacts) > PageSize
    /\ \E x \in contacts : ~x.is_resolved

\* ------------------------------------------------------------------------
\* Properties of the profile table (ProfilesSpec)
\* ------------------------------------------------------------------------
ProfilesOf(u) == {p \in profiles : p.user = u}

\* C17: in every reachable store no account has more than one profile; the
\* account a register request has registered (the request came back without
\* a failure) and the account a profile request was served for have exactly
\* one.
C17_OneProfilePerAccount ==
    /\ \A x \in users : Cardinality(ProfilesOf(x.username)) <= 1
    /\ (Served("register") /\ resp.valid = "yes" /\ resp.kind # "IntegrityError")
          => Cardinality(ProfilesOf(Posted("username"))) = 1
    /\ (resp.view = "profile" /\ resp.kind # "redirect:login")
          => Cardinality(ProfilesOf(resp.session)) = 1

\* C17 witness: two profile requests of the same account, both past the
\* lookup that found no profile, and the first of them has created it.
C17_Witness ==
    \E c, d \in Clients :
        /\ c # d
        /\ session[c] # Anonymous
        /\ session[c] = session[d]
        /\ pc[d] = "profile_create"
        /\ resp.view = "profile" /\ resp.session = session[c]
        /\ pc[c] = "idle"
        /\ Cardinality(ProfilesOf(session[c])) = 1

\* ------------------------------------------------------------------------
\* Properties of repeat contacts (RepeatContactSpec)
\* ------------------------------------------------------------------------
InquiriesFrom(rows, e) == {x \in rows : x.email = e}

\* every field of the posted contact form passes its rule
AllFieldsValid(post) ==
    /\ NameRegex(Strip(PostGet(post, "name")))
    /\ EmailFieldValid(Strip(PostGet(post, "email")))
    /\ ContactSubjectValid(Strip(PostGet(post, "subject")))
    /\ ContactMessageValid(Strip(PostGet(post, "message")))

\* C18: a repeat contact is flagged and never rejected: validate_email asked
\* about an email that an inquiry in the store has answers with the warning
\* only, and a contact POST with such an email and all fields valid is
\* accepted and adds one inquiry with that email.
C18_RepeatContactAccepted ==
    [][/\ (vresp' # vresp /\ vreq'.view = "validate_email"
              /\ vreq'.method = "POST"
              /\ Contacted(Strip(PostGet(vreq'.post, "email"))))
            => vresp' = Warning("This email has contacted us before")
       /\ (resp' # resp /\ resp'.view = "contact" /\ resp'.method = "POST"
              /\ AllFieldsValid(resp'.post)
              /\ Contacted(Strip(PostGet(resp'.post, "email"))))
            => LET e == Strip(PostGet(resp'.post, "email"))
               IN  /\ resp'.valid = "yes"
                   /\ resp'.msg = "success"
                   /\ Cardinality(InquiriesFrom(contacts', e))
                        = Cardinality(InquiriesFrom(contacts, e)) + 1]_vars

\* C18 witness: a second inquiry with the email of an earlier one has been
\* accepted, and the live check has flagged that email with the warning.
C18_Witness ==
    /\ Answered("validate_email")
    /\ Submitted("email") = E_plain
    /\ vresp = Warning("This email has contacted us before")
    /\ Served("contact") /\ resp.valid = "yes" /\ Posted("email") = E_plain
    /\ Cardinality(InquiriesFrom(contacts, E_plain)) = 2

\* ------------------------------------------------------------------------
\* Properties of the name rule (NameFormsSpec)
\* ------------------------------------------------------------------------
\* the live check of field key has answered for the name n
LiveAnswer(endpoint, key, n) ==
    Answered(endpoint) /\ Strip(Submitted(key)) = n

\* C19: the forms enforce the name rule of the live checks: a first name,
\* last name or contact name that its live check answers with an error is
\* not accepted by the form it is submitted in, and a name the form rejects
\* is not one its live check answers with success.
C19_FormsEnforceNameRule ==
    /\ \A c \in Clients :
          pc[c] = "register_save" =>
              /\ LiveAnswer("validate_first_name", "first_name",
                            Strip(req[c].post.first_name))
                    => vresp.kind # "validation_error"
              /\ LiveAnswer("validate_last_name", "last_name",
                            Strip(req[c].post.last_name))
                    => vresp.kind # "validation_error"
    /\ (Served("contact") /\ resp.valid = "yes"
            /\ LiveAnswer("validate_name", "name", Posted("name")))
          => vresp.kind # "validation_error"
    /\ (Served("register") /\ resp.valid = "no" /\ "first_name" \in resp.errors
            /\ LiveAnswer("validate_first_name", "first_name", Posted("first_name")))
          => vresp.kind # "validation_success"
    /\ (Served("register") /\ resp.valid = "no" /\ "last_name" \in resp.errors
            /\ LiveAnswer("validate_last_name", "last_name", Posted("last_name")))
          => vresp.kind # "validation_success"
    /\ (Served("contact") /\ resp.valid = "no" /\ "name" \in resp.errors
            /\ LiveAnswer("validate_name", "name", Posted("name")))
          => vresp.kind # "validation_success"

\* ------------------------------------------------------------------------
\* Properties of the sessions (SessionsSpec)
\* ------------------------------------------------------------------------
\* C20: a GET to logout is answered with the confirmation page and leaves
\* every session as it was; a session that is authenticated stops being so
\* only in a step that answers a POST to logout, so a user who logged in and
\* sent no POST to logout is still authenticated.
C20_LogoutOnlyOnPost ==
    [][/\ (resp' # resp /\ resp'.view = "logout" /\ resp'.method = "GET")
            => /\ session' = session
               /\ resp'.kind = "registration/logout.html"
       /\ \A c \in Clients :
            (session[c] # Anonymous /\ session'[c] = Anonymous)
                => (resp'.view = "logout" /\ resp'.method = "POST")]_vars

\* C20 witness: a logged-in client has been answered a GET to logout and its
\* session is still authenticated.
C20_Witness ==
    /\ resp.view = "logout"
    /\ resp.method = "GET"
    /\ resp.kind = "registration/logout.html"
    /\ resp.session # Anonymous
    /\ \E c \in Clients : session[c] = resp.session

====
